---- MODULE Spec2Model ----
(***************************************************************************)
(* A model of the HST class of src/effmap/hst.py: the instance attributes  *)
(* and the methods compute_sizes, compute_speed_limit, compute_eff and     *)
(* compute_loads.                                                          *)
(*                                                                         *)
(* np.float64 arithmetic is modelled in fixed point on integers:           *)
(*   lengths            in 1e-5 m            (field names of self.sizes)   *)
(*   areas              in 1e-10 sq.m                                      *)
(*   flow rates         in cub.mm/s  (1e-9 cub.m/s)                        *)
(*   efficiencies       in 1e-4 per cent     (1000000 is 100 %)            *)
(*   design balances    in per cent          (k1 = 75 is .75)              *)
(*   dynamic viscosity  in 0.1 mPa s                                       *)
(*   speeds             in rpm, pressures in bar                           *)
(*   torque in 0.01 N m, power in 0.01 kW, motor speed in 0.01 rpm         *)
(*   loads              in N (the code's kN times 1000)                    *)
(* A result that numpy delivers as nan or +-inf (with a RuntimeWarning     *)
(* only, no exception) is the reserved value NonFinite.                    *)
(***************************************************************************)
EXTENDS Integers, Sequences, FiniteSets, TLC

(***************************************************************************)
(* Fixed-point helpers                                                     *)
(***************************************************************************)
MaxInt == 2 * (2^30 - 1) + 1

NonFinite == -(10^9)

IsFin(x) == x # NonFinite

Abs(x) == IF x < 0 THEN -x ELSE x

Sgn(x) == IF x < 0 THEN -1 ELSE 1

RECURSIVE MulModStep(_, _, _, _)
\* <<q, t>> with r * b = q * c + t and 0 <= t < c, for 0 <= r < c, taking
\* b digit by digit in base B, 2 * B * c <= MaxInt: no product overflows.
MulModStep(r, b, c, B) ==
    IF b = 0 THEN <<0, 0>>
    ELSE LET hi == MulModStep(r, b \div B, c, B)
             t  == B * hi[2] + (b % B) * r
         IN  <<B * hi[1] + t \div c, t % c>>

\* floor(a * b / c) for a, b >= 0 and 0 < c <= MaxInt / 4, without
\* overflowing 32 bits.
MulDivU(a, b, c) ==
    IF b = 0 \/ a <= MaxInt \div b
    THEN (a * b) \div c
    ELSE (a \div c) * b + MulModStep(a % c, b, c, MaxInt \div (2 * c))[1]

\* a * b / c rounded towards zero, signs as in float arithmetic.
MulDiv(a, b, c) ==
    Sgn(a) * Sgn(b) * Sgn(c) * MulDivU(Abs(a), Abs(b), Abs(c))

RECURSIVE SqrtSearch(_, _, _)
SqrtSearch(n, lo, hi) ==
    IF lo >= hi THEN lo
    ELSE LET mid == (lo + hi + 1) \div 2
         IN  IF mid <= n \div mid THEN SqrtSearch(n, mid, hi)
             ELSE SqrtSearch(n, lo, mid - 1)

\* floor(sqrt(n)) for n >= 0
ISqrt(n) == IF n <= 0 THEN 0 ELSE SqrtSearch(n, 1, 46340)

One6 == 10^6

Pi6 == 3141593

\* x * y of two values scaled by 1e6
Mul6(x, y) == MulDiv(x, y, One6)

\* x - x^3/3! + x^5/5! - x^7/7! + x^9/9! in Horner form, x2 = x * x
SinPoly(x, x2) ==
    Mul6(x, One6 - Mul6(x2, One6 - Mul6(x2, One6 - Mul6(x2, One6 - x2 \div 72)
                                                  \div 42)
                                 \div 20)
                  \div 6)

SinAcute(x) == SinPoly(x, Mul6(x, x))

\* np.sin of an angle in [0, pi], angle and value scaled by 1e6 (Taylor
\* series about 0 after reflecting into [0, pi/2]).
Sin6(a) == SinAcute(IF 2 * a > Pi6 THEN Pi6 - a ELSE a)

\* np.radians of an angle in whole degrees, scaled by 1e6
Radians6(deg) == MulDiv(deg, Pi6, 180)

Cos6(a) == Sin6(Pi6 \div 2 - a + (IF 2 * a > Pi6 THEN Pi6 ELSE 0))

\* np.tan(np.radians(deg)) scaled by 1e6, for 0 <= deg < 90
TanDeg6(deg) == MulDiv(Sin6(Radians6(deg)), One6, Cos6(Radians6(deg)))

CosDeg6(deg) == Cos6(Radians6(deg))

\* 2 * (z + z^3/3 + z^5/5 + z^7/7 + z^9/9) in Horner form, z2 = z * z
LnPoly(z, z2) ==
    2 * Mul6(z, One6 + Mul6(z2, One6 \div 3
                                + Mul6(z2, One6 \div 5
                                           + Mul6(z2, One6 \div 7 + z2 \div 9))))

LnAtanh(z) == LnPoly(z, Mul6(z, z))

\* np.log(num / den) scaled by 1e6, for num > den > 0:
\* 2 * atanh((num - den) / (num + den)) as a series.
Ln6(num, den) == LnAtanh(MulDiv(num - den, One6, num + den))

ExpM1 == 367879

RECURSIVE ExpNegInt6(_)
\* exp(-n) scaled by 1e6 for a whole n >= 0
ExpNegInt6(n) ==
    IF n = 0 THEN One6
    ELSE IF n > 14 THEN 0
    ELSE Mul6(ExpM1, ExpNegInt6(n - 1))

\* exp(-f) for 0 <= f < 1 scaled by 1e6: the series to f^8/8! in Horner form
ExpFrac(f) ==
    One6 - Mul6(f, One6 - Mul6(f, One6 - Mul6(f, One6 - Mul6(f, One6
             - Mul6(f, One6 - Mul6(f, One6 - Mul6(f, One6 - f \div 8) \div 7)
                       \div 6) \div 5) \div 4) \div 3) \div 2)

\* np.exp(-x) for x >= 0, x scaled by 1e4, value scaled by 1e6
ExpNeg6(x4) == Mul6(ExpNegInt6(x4 \div 10000), ExpFrac((x4 % 10000) * 100))

RECURSIVE CbrtSearch(_, _, _)
\* the largest m in lo..hi with m ** 3 <= 1000 * y
CbrtSearch(y, lo, hi) ==
    IF lo >= hi THEN lo
    ELSE LET mid == (lo + hi + 1) \div 2
         IN  IF MulDivU(mid * mid, mid, 1000) <= y THEN CbrtSearch(y, mid, hi)
             ELSE CbrtSearch(y, lo, mid - 1)

\* (1000 * y) ** (1/3) for y >= 0
ICbrt1000(y) == IF y <= 0 THEN 0 ELSE CbrtSearch(y, 0, 12900)

(***************************************************************************)
(* The instance                                                            *)
(***************************************************************************)
\* Python's None, also the value of a variable nothing has been bound to yet
None == [none |-> TRUE]

\* self.<name> = value.  The instance is its __dict__: an attribute that no
\* statement has assigned yet is no element of DOMAIN self, and reading it
\* raises AttributeError.
Assign(self, name, value) == (name :> value) @@ self

HasAttr(self, name) == name \in DOMAIN self

\* pd.read_csv of the oil table: dynamic viscosity by temperature (a table
\* in steps of 10 degrees, the rows around the default temperature kept)
load_oil(oil) == (90 :> 145 @@ 100 :> 110)

\* HST.__init__, called with the default engine, input gear ratio (in per
\* cent) and maximal input power (in kW)
HST(disp, swash, pistons, oil_temp) ==
    [displ |-> disp, swash |-> swash, pistons |-> pistons,
     oil |-> "SAE 15W40", oil_temp |-> oil_temp, oil_bulk |-> 15000,
     engine |-> "engine_1", input_gear_ratio |-> 75, max_power_input |-> 680,
     oil_data |-> load_oil("SAE 15W40")]

\* what a method call does: the instance afterwards, how the call ended
\* ("ok" or the exception raised) and the value returned
Result(self, outcome, ret) == [self |-> self, outcome |-> outcome, ret |-> ret]

Raise(self, exc) == Result(self, exc, None)

(***************************************************************************)
(* The inputs of the model                                                 *)
(***************************************************************************)
\* the largest piston count of the constructed machines
MaxPistons == 9

\* the arguments HST.__init__ is called with: machines of 100 cc/rev with
\* the default swash angle and the two largest piston counts (one odd, one
\* even), one whose oil temperature is no row of the oil table, one with a
\* zero swash angle and one with no piston
Machines ==
    {HST(100, 18, n, 100) : n \in (MaxPistons - 1)..MaxPistons}
    \cup {HST(100, 18, MaxPistons, 105), HST(100, 0, MaxPistons, 100),
          HST(100, 18, 0, 100)}

\* the machines plot_eff_maps is called on: those above, one with the
\* second engine and one with no engine
PlotMachines ==
    Machines \cup {[HST(100, 18, MaxPistons, 100) EXCEPT !.engine = e] :
                      e \in {"engine_2", ""}}

\* the defaults of the design balances k1..k5 of compute_sizes, in per cent
K1Default == 75

K2Default == 91

K3Default == 48

K4Default == 93

K5Default == 91

\* the values compute_sizes is called with for k1
K1s == {K1Default, 80}

\* the default of pressure_charge
ChargeDefault == 25

\* the largest number of samples per axis of a map
MaxRes == 2

\* the arguments plot_eff_maps is called with: a map from the default lower
\* limits (1000 rpm, 75 bar) to 2000 rpm and 300 bar, at the default charge
\* pressure and at 30 bar; the discharge pressures of the map are above the
\* charge pressure
PlotArgs ==
    {[max_speed_pump |-> 2000, max_pressure_discharge |-> 300,
      min_speed_pump |-> 1000, min_pressure_discharge |-> 75,
      pressure_charge |-> p, res |-> n] : p \in {ChargeDefault, 30}, n \in 2..MaxRes}

\* the operating points <<speed_pump, pressure_discharge, pressure_charge>>
\* compute_eff is called with: a rated point, two low speeds (the leakage
\* above the theoretical flow, and just below it), a discharge pressure just
\* above, at and below the charge pressure
OperatingPoints ==
    {<<2000, 300, ChargeDefault>>, <<100, 300, ChargeDefault>>,
     <<430, 300, ChargeDefault>>,
     <<2000, 30, ChargeDefault>>, <<2000, 25, ChargeDefault>>,
     <<2000, 20, ChargeDefault>>}

\* the grid points of a sweep: discharge pressures above the charge pressure
SweepPoints == {op \in OperatingPoints : op[2] > op[3]}

\* the pressures <<pressure_discharge, pressure_charge>> of compute_loads
LoadPoints == {<<300, ChargeDefault>>, <<75, ChargeDefault>>}

\* the regression models passed to compute_speed_limit
RegModels ==
    {[intercept_ |-> 3500, coef_ |-> -3, test_rmse_ |-> r] : r \in {0, 250}}

\* the threads that evaluate grid points of a sweep side by side
Workers == {1, 2}

(***************************************************************************)
(* compute_sizes                                                           *)
(***************************************************************************)
\* the sizes dict when numpy has divided by zero: every entry is inf or nan
NonFiniteSizes ==
    [d |-> NonFinite, Ap |-> NonFinite, D |-> NonFinite, h |-> NonFinite,
     eng |-> NonFinite, rbo |-> NonFinite, Rbo |-> NonFinite,
     Rbi |-> NonFinite, rbi |-> NonFinite, rs |-> NonFinite, Rs |-> NonFinite]

\* (4 - np.pi) scaled by 1e6
FourMinusPi6 == 4 * One6 - Pi6

\* line 200-201: dia_piston ** 3 is taken in (1e-4 m) ** 3
dia_piston(self, k1, tan) ==
    ICbrt1000(MulDivU(4 * self.displ * k1 * 10000, One6,
                      self.pistons * self.pistons * tan))

\* line 202
area_piston(d) == MulDivU(d * d, Pi6, 4 * One6)

\* line 203
pcd(self, k1, d) == MulDivU(self.pistons * d * 100, One6, Pi6 * k1)

\* line 204
stroke(pitch, tan) == MulDivU(pitch, tan, One6)

\* line 205
min_engagement(d) == (14 * d) \div 10

\* line 206
kidney_area(Ap, k3) == MulDivU(Ap, k3, 100)

\* line 207-208
kidney_width(d, kidney) ==
    MulDivU(2 * (10 * d - ISqrt(100 * (d * d - MulDivU(kidney, FourMinusPi6, One6)))),
            One6, 10 * FourMinusPi6)

\* line 209-210
land_width(self, k2, Ap, pitch, kw) ==
    MulDivU(Ap, k2 * self.pistons, 100) \div MulDivU(pitch, Pi6, One6) - kw

\* line 215
area_shoe(self, k4, Ap) ==
    MulDivU(MulDivU(Ap, k4, 100), One6, CosDeg6(self.swash))

\* line 216
rad_ext_shoe(self, k5, pitch) ==
    (MulDivU(pitch, Pi6, One6) * k5) \div (100 * 2 * self.pistons)

\* line 217
rad_int_shoe(Rs, shoe) == ISqrt(Rs * Rs - MulDivU(shoe, One6, Pi6))

\* lines 211-214 and the dict of lines 218-219
sizes_of_widths(d, Ap, pitch, h, kw, lw, rs, Rs) ==
    [d |-> d, Ap |-> Ap, D |-> pitch, h |-> h, eng |-> min_engagement(d),
     rbo |-> (pitch + kw) \div 2, Rbo |-> (pitch + kw) \div 2 + lw,
     Rbi |-> (pitch - kw) \div 2, rbi |-> (pitch - kw) \div 2 - lw,
     rs |-> rs, Rs |-> Rs]

\* lines 204, 209-210 and 215-217, k the balances <<k1, .., k5>>
sizes_of_kidney(self, k, tan, d, Ap, pitch, kw, Rs) ==
    sizes_of_widths(d, Ap, pitch, stroke(pitch, tan), kw,
                    land_width(self, k[2], Ap, pitch, kw),
                    rad_int_shoe(Rs, area_shoe(self, k[4], Ap)), Rs)

\* lines 206-208 and 216
sizes_of_areas(self, k, tan, d, Ap, pitch) ==
    sizes_of_kidney(self, k, tan, d, Ap, pitch,
                    kidney_width(d, kidney_area(Ap, k[3])),
                    rad_ext_shoe(self, k[5], pitch))

\* lines 202-203
sizes_of_piston(self, k, tan, d) ==
    sizes_of_areas(self, k, tan, d, area_piston(d), pcd(self, k[1], d))

\* lines 200-201
sizes_of_tan(self, k, tan) ==
    sizes_of_piston(self, k, tan, dia_piston(self, k[1], tan))

\* lines 200-219 for a non-zero divisor pistons ** 2 * tan(swash)
FiniteSizes(self, k1, k2, k3, k4, k5) ==
    sizes_of_tan(self, <<k1, k2, k3, k4, k5>>, TanDeg6(self.swash))

\* the dict of lines 218-219.  No argument or attribute is validated: a
\* zero swash angle or piston count makes the divisor of line 201 a
\* np.float64 zero, which yields inf (RuntimeWarning, no exception).
sizes_dict(self, k1, k2, k3, k4, k5) ==
    IF self.pistons * self.pistons * TanDeg6(self.swash) = 0
    THEN NonFiniteSizes
    ELSE FiniteSizes(self, k1, k2, k3, k4, k5)

\* the instance as __init__ left it (of the default engine: neither the
\* sizes nor the leakage depend on the engine)
Fresh(self) == HST(self.displ, self.swash, self.pistons, self.oil_temp)

\* sizes_dict of the machines and balances of the model, evaluated once
SizesMemo ==
    [m \in Machines, k1 \in K1s |->
        sizes_dict(m, k1, K2Default, K3Default, K4Default, K5Default)]

\* sizes_dict, looked up where it is tabulated
sizes_lookup(self, k1, k2, k3, k4, k5) ==
    IF /\ <<k2, k3, k4, k5>> = <<K2Default, K3Default, K4Default, K5Default>>
       /\ <<Fresh(self), k1>> \in DOMAIN SizesMemo
    THEN SizesMemo[Fresh(self), k1]
    ELSE sizes_dict(self, k1, k2, k3, k4, k5)

\* HST.compute_sizes: stores the dict and returns nothing
compute_sizes(self, k1, k2, k3, k4, k5) ==
    Result(Assign(self, "sizes", sizes_lookup(self, k1, k2, k3, k4, k5)), "ok", None)

(***************************************************************************)
(* compute_speed_limit                                                     *)
(***************************************************************************)
\* RegModel.predict: the fitted line speed = intercept_ + coef_ * displ
predict(RegModel, displ) == RegModel.intercept_ + RegModel.coef_ * displ

\* a variant of speed_limit_list with the error added first: C8_SpeedBand
\* tells it from the code
speed_limit_list_reversed(self, RegModel) ==
    <<predict(RegModel, self.displ) + RegModel.test_rmse_,
      predict(RegModel, self.displ) + 0,
      predict(RegModel, self.displ) + (-RegModel.test_rmse_)>>

\* the list comprehension of lines 223-224, i running over
\* (-RegModel.test_rmse_, 0, +RegModel.test_rmse_)
speed_limit_list(self, RegModel) ==
    <<predict(RegModel, self.displ) + (-RegModel.test_rmse_),
      predict(RegModel, self.displ) + 0,
      predict(RegModel, self.displ) + RegModel.test_rmse_>>

\* HST.compute_speed_limit
compute_speed_limit(self, RegModel) ==
    Result(Assign(self, "pump_speed_limit", speed_limit_list(self, RegModel)),
           "ok", None)

(***************************************************************************)
(* compute_eff                                                             *)
(***************************************************************************)
\* the defaults of the keyword parameters of compute_eff:
\* A in 1e-2, Bp and Bm in 1e-1, Cp and Cm in 1e-3, h1..h3 in 1e-6 m
A == 17

Bp == 10

Bm == 5

Cp == 1

Cm == 5

D == 125

h1 == 15

h2 == 15

h3 == 25

eccentricity == 1

\* self.oil_data.loc[self.oil_temp]['Dyn. Viscosity']
Viscosity(self) == self.oil_data[self.oil_temp]

\* a + b of two np.float64: nan or inf when either is
Plus(a, b) == IF IsFin(a) /\ IsFin(b) THEN a + b ELSE NonFinite

\* line 252-253, in cub.mm/s
leak_block(self, pressure_discharge, pressure_charge) ==
    LET sz == self.sizes
    IN  IF ~IsFin(sz.Rbo) THEN NonFinite
        ELSE LET G == MulDivU(One6, 1000, Ln6(sz.Rbo, sz.rbo))
                      + MulDivU(One6, 1000, Ln6(sz.Rbi, sz.rbi))
             IN  MulDiv(MulDiv(h1 * h1 * h1 * (pressure_discharge + pressure_charge),
                               Pi6, One6),
                        G, 12000 * Viscosity(self))

\* line 254-255
leak_shoes(self, pressure_discharge, pressure_charge) ==
    LET sz == self.sizes
    IN  IF ~IsFin(sz.Rs) THEN NonFinite
        ELSE MulDiv(MulDiv(MulDiv(self.pistons * h2 * h2 * h2
                                  * (pressure_discharge + pressure_charge),
                                  Pi6, One6),
                           1000, 12 * Viscosity(self)),
                    1000, Ln6(sz.Rs, sz.rs))

\* one element of the array of lines 256-258
leak_piston(self, ii, pressure_discharge, pressure_charge) ==
    LET sz == self.sizes
    IN  IF ~IsFin(sz.d) THEN NonFinite
        ELSE MulDiv(MulDiv(MulDiv(self.pistons * h3 * h3 * h3
                                  * (pressure_discharge + pressure_charge),
                                  Pi6, One6),
                           10 + 15 * eccentricity * eccentricity * eccentricity,
                           240 * Viscosity(self)),
                    sz.d,
                    sz.eng + Mul6(sz.h, Sin6(MulDiv(Pi6, ii, self.pistons))))

RECURSIVE leak_piston_sum(_, _, _, _)
\* sum(leak_piston) over ii in np.arange(upto); the sum of no element is 0
leak_piston_sum(self, upto, pressure_discharge, pressure_charge) ==
    IF upto <= 0 THEN 0
    ELSE Plus(leak_piston_sum(self, upto - 1, pressure_discharge, pressure_charge),
              leak_piston(self, upto - 1, pressure_discharge, pressure_charge))

\* line 259
leak_pistons(self, pressure_discharge, pressure_charge) ==
    leak_piston_sum(self, self.pistons, pressure_discharge, pressure_charge)

\* line 260
leak_sum(self, pressure_discharge, pressure_charge) ==
    Plus(Plus(leak_block(self, pressure_discharge, pressure_charge),
              leak_shoes(self, pressure_discharge, pressure_charge)),
         leak_pistons(self, pressure_discharge, pressure_charge))

\* the attributes lines 252-260 read
LeakKey(self) == Assign(Fresh(self), "sizes", self.sizes)

\* leak_sum of the sized machines and pressures of the model, evaluated once
LeakMemo ==
    [s \in {Assign(m, "sizes", SizesMemo[m, k1]) :
               m \in {x \in Machines : x.oil_temp \in DOMAIN x.oil_data},
               k1 \in K1s},
     p \in {<<op[2], op[3]>> : op \in OperatingPoints} |->
        leak_sum(s, p[1], p[2])]

leak_total(self, pressure_discharge, pressure_charge) ==
    IF <<LeakKey(self), <<pressure_discharge, pressure_charge>>>> \in DOMAIN LeakMemo
    THEN LeakMemo[LeakKey(self), <<pressure_discharge, pressure_charge>>]
    ELSE leak_sum(self, pressure_discharge, pressure_charge)

\* line 261, in cub.mm/s
th_flow_rate_pump(self, speed_pump) == MulDiv(speed_pump * self.displ, 1000, 60)

\* line 262-263
vol_pump(self, speed_pump, pressure_discharge, pressure_charge, leak) ==
    IF ~IsFin(leak) THEN NonFinite
    ELSE One6 - MulDiv(pressure_discharge - pressure_charge, One6, self.oil_bulk)
              - MulDiv(leak, One6, th_flow_rate_pump(self, speed_pump))

\* a variant of vol_motor in which the leakage adds to the flow:
\* C5_AtMostHundred tells it from the code
vol_motor_gain(self, speed_pump, leak) ==
    IF ~IsFin(leak) THEN NonFinite
    ELSE One6 + MulDiv(leak, One6, th_flow_rate_pump(self, speed_pump))

\* line 264
vol_motor(self, speed_pump, leak) ==
    IF ~IsFin(leak) THEN NonFinite
    ELSE One6 - MulDiv(leak, One6, th_flow_rate_pump(self, speed_pump))

\* a * b * 1e-2 of two percentages
PctMul(a, b) == IF IsFin(a) /\ IsFin(b) THEN MulDiv(a, b, One6) ELSE NonFinite

\* np.sqrt(x) scaled by 1e3, x >= 0 scaled by 1e4
Sqrt3(x4) == IF x4 < 10^7 THEN ISqrt(100 * x4) ELSE 10 * ISqrt(x4)

\* (1 - A * np.exp(-B * x) - C * np.sqrt(x) - D / swash_dp) * 100, where x
\* is viscosity * speed / swash_dp, given by its sign and, when it is not
\* negative, by its value scaled by 1e4, and swash_dp is
\* self.swash * (pressure_discharge - pressure_charge), not 0.
\* np.sqrt of a negative x is nan, however small x is.
mech_formula(x_sign, x4, B, C, swash_dp) ==
    IF x_sign < 0 THEN NonFinite
    ELSE One6 - (A * ExpNeg6((B * x4) \div 10)) \div 100
              - C * Sqrt3(x4)
              - MulDiv(D, One6, swash_dp)

\* line 266-270
mech_pump(self, speed_pump, pressure_discharge, pressure_charge) ==
    LET swash_dp == self.swash * (pressure_discharge - pressure_charge)
    IN  mech_formula(Sgn(speed_pump) * Sgn(swash_dp),
                     MulDiv(Viscosity(self) * speed_pump, 1000, swash_dp),
                     Bp, Cp, swash_dp)

\* a variant of mech_motor that takes the hst volumetric efficiency from the
\* stored latest result when there is one: C4_Deterministic and
\* C12_MotorFromOwnVolHst tell it from the code
mech_motor_stale(self, speed_pump, vol_hst, pressure_discharge, pressure_charge) ==
    LET swash_dp == self.swash * (pressure_discharge - pressure_charge)
        latest == IF HasAttr(self, "efficiencies")
                  THEN self.efficiencies.hst.volumetric ELSE vol_hst
    IN  IF ~IsFin(latest) THEN NonFinite
        ELSE mech_formula(Sgn(speed_pump) * Sgn(latest) * Sgn(swash_dp),
                          MulDiv(MulDiv(Viscosity(self) * speed_pump, latest, One6),
                                 1000, swash_dp),
                          Bm, Cm, swash_dp)

\* line 271-275: the motor speed is speed_pump * vol_hst * 1e-2, with the
\* vol_hst of this call (the local variable of line 265)
mech_motor(self, speed_pump, vol_hst, pressure_discharge, pressure_charge) ==
    LET swash_dp == self.swash * (pressure_discharge - pressure_charge)
    IN  IF ~IsFin(vol_hst) THEN NonFinite
        ELSE mech_formula(Sgn(speed_pump) * Sgn(vol_hst) * Sgn(swash_dp),
                          MulDiv(MulDiv(Viscosity(self) * speed_pump, vol_hst, One6),
                                 1000, swash_dp),
                          Bm, Cm, swash_dp)

\* the torque for a divisor 2 * np.pi * mech_pump * 1e-2 that is not 0
torque_over(self, div, pressure_discharge, pressure_charge) ==
    IF div = 0 THEN NonFinite
    ELSE MulDiv((pressure_discharge - pressure_charge) * self.displ * 1000,
                10000, div)

\* line 280-281, in 0.01 N m
torque_pump_of(self, mech_p, pressure_discharge, pressure_charge) ==
    torque_over(self, IF IsFin(mech_p) THEN MulDiv(mech_p, 2 * Pi6, One6) ELSE 0,
                pressure_discharge, pressure_charge)

\* line 284, in 0.01 kW
power_pump_of(torque, speed_pump) ==
    IF ~IsFin(torque) THEN NonFinite
    ELSE MulDiv(MulDiv(torque, speed_pump, 30000), Pi6, One6)

\* line 286, in 0.01 rpm
speed_motor_of(speed_pump, vol_hst) ==
    IF ~IsFin(vol_hst) THEN NonFinite ELSE MulDiv(speed_pump * 100, vol_hst, One6)

Minus(a, b) == IF IsFin(a) /\ IsFin(b) THEN a - b ELSE NonFinite

\* the local variables of compute_eff after line 286, as a record
locals_record(speed_pump, pd, pc, vp, vm, vh, mp, mm, mh, tp, tm, th, tqp, pwp) ==
    [speed_pump |-> speed_pump,
     pressure_discharge |-> pd,
     pressure_charge |-> pc,
     vol_pump |-> vp, vol_motor |-> vm, vol_hst |-> vh,
     mech_pump |-> mp, mech_motor |-> mm, mech_hst |-> mh,
     total_pump |-> tp, total_motor |-> tm, total_hst |-> th,
     torque_pump |-> tqp, torque_motor |-> PctMul(tqp, mh),
     power_pump |-> pwp, power_motor |-> PctMul(pwp, th),
     speed_motor |-> speed_motor_of(speed_pump, vh)]

\* lines 279 and 284
locals_of_totals(speed_pump, pd, pc, vp, vm, vh, mp, mm, mh, tp, tm, tqp) ==
    locals_record(speed_pump, pd, pc,
                  vp, vm, vh, mp, mm, mh, tp, tm, PctMul(tp, tm), tqp,
                  power_pump_of(tqp, speed_pump))

\* lines 276-278 and 280-281
locals_of_mech(self, speed_pump, pd, pc, vp, vm, vh, mp, mm) ==
    locals_of_totals(speed_pump, pd, pc,
                     vp, vm, vh, mp, mm, PctMul(mp, mm), PctMul(vp, mp),
                     PctMul(vm, mm),
                     torque_pump_of(self, mp, pd, pc))

\* lines 266-275
locals_of_vol(self, speed_pump, pressure_discharge, pressure_charge, vp, vm, vh) ==
    locals_of_mech(self, speed_pump, pressure_discharge, pressure_charge,
                   vp, vm, vh,
                   mech_pump(self, speed_pump, pressure_discharge, pressure_charge),
                   mech_motor(self, speed_pump, vh, pressure_discharge,
                              pressure_charge))

\* line 265
locals_of_flows(self, speed_pump, pressure_discharge, pressure_charge, vp, vm) ==
    locals_of_vol(self, speed_pump, pressure_discharge, pressure_charge,
                  vp, vm, PctMul(vp, vm))

\* lines 261-264
locals_of_leak(self, speed_pump, pressure_discharge, pressure_charge, leak) ==
    locals_of_flows(self, speed_pump, pressure_discharge, pressure_charge,
                    vol_pump(self, speed_pump, pressure_discharge, pressure_charge,
                             leak),
                    vol_motor(self, speed_pump, leak))

\* lines 252-286
eff_locals(self, speed_pump, pressure_discharge, pressure_charge) ==
    locals_of_leak(self, speed_pump, pressure_discharge, pressure_charge,
                   leak_total(self, pressure_discharge, pressure_charge))

\* a variant of performance_dict with the two pressures exchanged:
\* C10_OwnResultUnlessOvertaken tells it from the code
performance_dict_swapped(loc) ==
    [pump |-> [speed |-> loc.speed_pump, torque |-> loc.torque_pump,
               power |-> loc.power_pump],
     motor |-> [speed |-> loc.speed_motor, torque |-> loc.torque_motor,
                power |-> loc.power_motor],
     delta |-> [speed |-> Minus(100 * loc.speed_pump, loc.speed_motor),
                torque |-> Minus(loc.torque_pump, loc.torque_motor),
                power |-> Minus(loc.power_pump, loc.power_motor)],
     charge_pressure |-> loc.pressure_discharge,
     discharge_pressure |-> loc.pressure_charge]

\* the dict of lines 287-290 (pump speed in rpm as passed, the motor and
\* delta speeds in 0.01 rpm)
performance_dict(loc) ==
    [pump |-> [speed |-> loc.speed_pump, torque |-> loc.torque_pump,
               power |-> loc.power_pump],
     motor |-> [speed |-> loc.speed_motor, torque |-> loc.torque_motor,
                power |-> loc.power_motor],
     delta |-> [speed |-> Minus(100 * loc.speed_pump, loc.speed_motor),
                torque |-> Minus(loc.torque_pump, loc.torque_motor),
                power |-> Minus(loc.power_pump, loc.power_motor)],
     charge_pressure |-> loc.pressure_charge,
     discharge_pressure |-> loc.pressure_discharge]

\* the dict of lines 291-293
efficiencies_dict(loc) ==
    [pump |-> [volumetric |-> loc.vol_pump, mechanical |-> loc.mech_pump,
               total |-> loc.total_pump],
     motor |-> [volumetric |-> loc.vol_motor, mechanical |-> loc.mech_motor,
                total |-> loc.total_motor],
     hst |-> [volumetric |-> loc.vol_hst, mechanical |-> loc.mech_hst,
              total |-> loc.total_hst]]

\* a variant that assigns self.performance only while the instance has none
store_performance_once(self, loc) ==
    IF HasAttr(self, "performance") THEN self
    ELSE Assign(self, "performance", performance_dict(loc))

\* lines 287-290: self.performance = {...}
store_performance(self, loc) == Assign(self, "performance", performance_dict(loc))

\* lines 291-293: self.efficiencies = {...}
store_efficiencies(self, loc) == Assign(self, "efficiencies", efficiencies_dict(loc))

\* the exception lines 252-286 raise, "ok" when they raise none.  The
\* arguments are Python numbers: self.sizes is read before the oil table
\* (line 253, left to right), and D / (self.swash * (...) * 1e-5) of line
\* 270 is a Python division, which raises on a zero divisor.  Nothing else
\* is checked: a discharge pressure below the charge pressure only makes
\* np.sqrt return nan.
eff_raises(self, speed_pump, pressure_discharge, pressure_charge) ==
    IF ~HasAttr(self, "sizes") THEN "AttributeError"
    ELSE IF self.oil_temp \notin DOMAIN self.oil_data THEN "KeyError"
    ELSE IF self.swash * (pressure_discharge - pressure_charge) = 0
         THEN "ZeroDivisionError"
    ELSE "ok"

\* line 294: return self.efficiencies
returned(stored) == Result(stored, "ok", stored.efficiencies)

\* lines 287-294
store_and_return(self, loc) ==
    returned(store_efficiencies(store_performance(self, loc), loc))

\* HST.compute_eff
compute_eff(self, speed_pump, pressure_discharge, pressure_charge) ==
    IF eff_raises(self, speed_pump, pressure_discharge, pressure_charge) # "ok"
    THEN Raise(self, eff_raises(self, speed_pump, pressure_discharge,
                                pressure_charge))
    ELSE store_and_return(self, eff_locals(self, speed_pump, pressure_discharge,
                                           pressure_charge))

(***************************************************************************)
(* compute_loads                                                           *)
(***************************************************************************)
\* a variant of high_side that rounds half the pistons up:
\* C6_PistonSplit tells it from the code
high_side_ceil(self) == (self.pistons + 1) \div 2

\* the number of pistons on the discharge side and on the charge side
high_side(self) == self.pistons \div 2 + 1

low_side(self) == self.pistons \div 2

\* bar * 1e5 * Ap, in N
Force(pressure_sum, Ap) ==
    IF ~IsFin(Ap) THEN NonFinite ELSE MulDiv(pressure_sum, Ap, 100000)

\* np.tan(np.radians(self.swash)) of the machines of the model, evaluated once
TanMemo == [deg \in {m.swash : m \in Machines} |-> TanDeg6(deg)]

TanSwash(self) ==
    IF self.swash \in DOMAIN TanMemo THEN TanMemo[self.swash] ELSE TanDeg6(self.swash)

TimesTan(self, f) ==
    IF ~IsFin(f) THEN NonFinite ELSE MulDiv(f, TanSwash(self), One6)

\* lines 306-313: the five assignments, one after the other
assign_loads(self, shaft, hx, lx) ==
    Assign(Assign(Assign(Assign(Assign(self, "shaft_radial", shaft),
                                "swash_high_x", hx),
                         "swash_low_x", lx),
                  "swash_high_z", TimesTan(self, hx)),
           "swash_low_z", TimesTan(self, lx))

\* the five loads as one value
loads_value(self, shaft, hx, lx) ==
    [shaft_radial |-> shaft, swash_high_x |-> hx, swash_low_x |-> lx,
     swash_high_z |-> TimesTan(self, hx), swash_low_z |-> TimesTan(self, lx)]

\* a variant of compute_loads that hands the loads to its caller and assigns
\* nothing: C7_AssignsFiveAttributes tells it from the code
compute_loads_pure(self, pressure_discharge, pressure_charge) ==
    IF ~HasAttr(self, "sizes") THEN Raise(self, "AttributeError")
    ELSE Result(self, "ok",
                loads_value(self,
                    TimesTan(self, Force(high_side(self) * pressure_discharge
                                         + low_side(self) * pressure_charge,
                                         self.sizes.Ap)),
                    Force(high_side(self) * pressure_discharge, self.sizes.Ap),
                    Force(low_side(self) * pressure_charge, self.sizes.Ap)))

\* HST.compute_loads: five attributes are assigned, nothing is returned
compute_loads(self, pressure_discharge, pressure_charge) ==
    IF ~HasAttr(self, "sizes") THEN Raise(self, "AttributeError")
    ELSE Result(assign_loads(self,
                    TimesTan(self, Force(high_side(self) * pressure_discharge
                                         + low_side(self) * pressure_charge,
                                         self.sizes.Ap)),
                    Force(high_side(self) * pressure_discharge, self.sizes.Ap),
                    Force(low_side(self) * pressure_charge, self.sizes.Ap)),
                "ok", None)

(***************************************************************************)
(* plot_eff_maps                                                           *)
(***************************************************************************)
\* HST.load_engines: the pivot speed of each engine, in rpm (the curves of
\* the engines are only drawn)
load_engines ==
    [engine_1 |-> [pivot_speed |-> 2700], engine_2 |-> [pivot_speed |-> 2200]]

\* np.linspace(start, stop, num), to the unit of its arguments
linspace(start, stop, num) ==
    [k \in 1..num |->
        IF num = 1 THEN start
        ELSE start + ((k - 1) * (stop - start)) \div (num - 1)]

\* the <<i, j>> of "for i in speed" inside "for j in pressure", in order
grid_points(speed, pressure) ==
    [k \in 1..(Len(speed) * Len(pressure)) |->
        <<speed[((k - 1) % Len(speed)) + 1],
          pressure[((k - 1) \div Len(speed)) + 1]>>]

\* the locals of compute_eff for a discharge pressure that is nan or inf:
\* every value computed from it is
locals_nan(speed_pump, pd, pc) ==
    locals_record(speed_pump, pd, pc,
                  NonFinite, NonFinite, NonFinite, NonFinite, NonFinite, NonFinite,
                  NonFinite, NonFinite, NonFinite, NonFinite, NonFinite)

\* ... and for np.float64 pressures with self.swash * (pd - pc) = 0: the
\* divisions by it give inf (nan for 0 / 0 and under the root for -0.0), so
\* the mechanical and total efficiencies are not finite, and the pump torque
\* and power, divided by -inf, are 0
locals_zero_divisor(self, speed_pump, pd, pc, leak) ==
    locals_record(speed_pump, pd, pc,
                  vol_pump(self, speed_pump, pd, pc, leak),
                  vol_motor(self, speed_pump, leak),
                  PctMul(vol_pump(self, speed_pump, pd, pc, leak),
                         vol_motor(self, speed_pump, leak)),
                  NonFinite, NonFinite, NonFinite, NonFinite, NonFinite, NonFinite,
                  IF speed_pump = 0 \/ pd < pc THEN NonFinite ELSE 0,
                  IF speed_pump = 0 \/ pd < pc THEN NonFinite ELSE 0)

\* lines 252-286 for np.float64 arguments, as plot_eff_maps passes them: no
\* division raises
eff_locals_np(self, speed_pump, pd, pc) ==
    IF ~IsFin(pd) THEN locals_nan(speed_pump, pd, pc)
    ELSE IF self.swash * (pd - pc) = 0
         THEN locals_zero_divisor(self, speed_pump, pd, pc, leak_total(self, pd, pc))
    ELSE eff_locals(self, speed_pump, pd, pc)

\* HST.compute_eff for np.float64 arguments
compute_eff_np(self, speed_pump, pd, pc) ==
    IF ~HasAttr(self, "sizes") THEN Raise(self, "AttributeError")
    ELSE IF self.oil_temp \notin DOMAIN self.oil_data THEN Raise(self, "KeyError")
    ELSE store_and_return(self, eff_locals_np(self, speed_pump, pd, pc))

\* one compute_eff call of a comprehension: its result joins the list, its
\* exception ends the comprehension
sweep_call(values, c) ==
    IF c.outcome # "ok" THEN c ELSE Result(c.self, "ok", Append(values, c.ret))

RECURSIVE sweep(_, _, _, _)
\* lines 356-360 (and 361-365): the compute_eff calls of the grid points from
\* the k-th on, with pressure_charge=pressure_charge; r holds the instance
\* and the list so far
sweep(r, points, pressure_charge, k) ==
    IF r.outcome # "ok" \/ k > Len(points) THEN r
    ELSE sweep(sweep_call(r.ret, compute_eff_np(r.self, points[k][1], points[k][2],
                                                pressure_charge)),
               points, pressure_charge, k + 1)

\* np.amax of a list that is not empty: nan if an element is
amax(values) ==
    IF \E k \in DOMAIN values : ~IsFin(values[k]) THEN NonFinite
    ELSE CHOOSE v \in {values[k] : k \in DOMAIN values} :
             \A k \in DOMAIN values : values[k] <= v

\* lines 436-439, in bar (to the bar)
pressure_pivot(self, pivot_speed, amax_mech, pressure_charge) ==
    IF ~IsFin(amax_mech) THEN NonFinite
    ELSE MulDiv(MulDiv(self.max_power_input * 1000, 60000,
                       pivot_speed * self.input_gear_ratio),
                amax_mech, One6 * self.displ)
         + pressure_charge

\* line 512 to the end: self.pump_speed_limit is read, the figure returned
plot_limits(self, eff_hst, performance_pivot) ==
    IF ~HasAttr(self, "pump_speed_limit") THEN Raise(self, "AttributeError")
    ELSE Result(self, "ok", [eff_hst |-> eff_hst, pivot |-> performance_pivot])

\* line 442: performance_pivot = self.performance, after the call c
plot_read_pivot(c, eff_hst) ==
    IF c.outcome # "ok" THEN c ELSE plot_limits(c.self, eff_hst, c.self.performance)

\* lines 434-442: the pivot call is
\* self.compute_eff(pivot speed * self.input_gear_ratio, pressure_pivot),
\* with no pressure_charge argument: the default of line 226 applies
plot_engine(self, eff_hst, amax_mech, pressure_charge) ==
    IF self.engine = "" THEN plot_limits(self, eff_hst, None)
    ELSE IF self.engine \notin DOMAIN load_engines THEN Raise(self, "KeyError")
    ELSE plot_read_pivot(
             compute_eff_np(self,
                 (load_engines[self.engine].pivot_speed * self.input_gear_ratio)
                     \div 100,
                 pressure_pivot(self, load_engines[self.engine].pivot_speed,
                                amax_mech, pressure_charge),
                 ChargeDefault),
             eff_hst)

\* lines 361-365, after the first comprehension
plot_second(first, second, pressure_charge) ==
    IF second.outcome # "ok" THEN second
    ELSE plot_engine(second.self,
                     [k \in DOMAIN first.ret |-> first.ret[k].hst.total],
                     amax([k \in DOMAIN second.ret |-> second.ret[k].pump.mechanical]),
                     pressure_charge)

\* lines 356-360
plot_first(first, points, pressure_charge) ==
    IF first.outcome # "ok" THEN first
    ELSE plot_second(first,
                     sweep(Result(first.self, "ok", <<>>), points, pressure_charge, 1),
                     pressure_charge)

\* HST.plot_eff_maps
plot_eff_maps(self, max_speed_pump, max_pressure_discharge, min_speed_pump, min_pressure_discharge, pressure_charge, res) ==
    plot_first(sweep(Result(self, "ok", <<>>),
                     grid_points(linspace(min_speed_pump, max_speed_pump, res),
                                 linspace(min_pressure_discharge,
                                          max_pressure_discharge, res)),
                     pressure_charge, 1),
               grid_points(linspace(min_speed_pump, max_speed_pump, res),
                           linspace(min_pressure_discharge,
                                    max_pressure_discharge, res)),
               pressure_charge)

(***************************************************************************)
(* State                                                                   *)
(***************************************************************************)
VARIABLES
    hst,      \* the HST instance: its attributes
    call,     \* the latest completed method call: method, args, outcome, ret
    kept,     \* an earlier successful compute_eff call, kept for comparison
    wpc,      \* per worker: where its compute_eff call stands
    wargs,    \* per worker: the operating point of its call
    wloc,     \* per worker: the local variables of its call
    wret,     \* per worker: the value its call returned
    wperf,    \* per worker: self.performance as read back after the call
    overtaken \* per worker: the attributes another call has stored between
              \* this call's store and its read of them

vars == <<hst, call, kept, wpc, wargs, wloc, wret, wperf, overtaken>>

wvars == <<wpc, wargs, wloc, wret, wperf, overtaken>>

Call(method, args, r) ==
    [method |-> method, args |-> args, outcome |-> r.outcome, ret |-> r.ret]

Init ==
    /\ hst \in Machines
    /\ call = None
    /\ kept = None
    /\ wpc = [w \in Workers |-> "idle"]
    /\ wargs = [w \in Workers |-> None]
    /\ wloc = [w \in Workers |-> None]
    /\ wret = [w \in Workers |-> None]
    /\ wperf = [w \in Workers |-> None]
    /\ overtaken = [w \in Workers |-> {}]

(***************************************************************************)
(* Method calls, one after the other                                       *)
(***************************************************************************)
ComputeSizes(k1) ==
    \E r \in {compute_sizes(hst, k1, K2Default, K3Default, K4Default, K5Default)} :
        /\ hst' = r.self
        /\ call' = Call("compute_sizes", <<k1>>, r)
        /\ UNCHANGED <<kept, wvars>>

ComputeSpeedLimit(RegModel) ==
    \E r \in {compute_speed_limit(hst, RegModel)} :
        /\ hst' = r.self
        /\ call' = Call("compute_speed_limit", <<RegModel>>, r)
        /\ UNCHANGED <<kept, wvars>>

\* what is kept of a successful compute_eff call
Keep(op, sizes, r) ==
    [args |-> op, sizes |-> sizes, efficiencies |-> r.ret,
     performance |-> r.self.performance, overwritten |-> FALSE]

\* A successful call may be kept, once, to compare later calls with; it is
\* overwritten once a call with other arguments has stored its result.
ComputeEff(op) ==
    \E r \in {compute_eff(hst, op[1], op[2], op[3])} :
        /\ hst' = r.self
        /\ call' = Call("compute_eff", op, r)
        /\ kept' \in IF r.outcome # "ok" THEN {kept}
                     ELSE IF kept = None THEN {kept, Keep(op, hst.sizes, r)}
                     ELSE {[kept EXCEPT !.overwritten = @ \/ op # kept.args]}
        /\ UNCHANGED wvars

ComputeLoads(p) ==
    \E r \in {compute_loads(hst, p[1], p[2])} :
        /\ hst' = r.self
        /\ call' = Call("compute_loads", p, r)
        /\ UNCHANGED <<kept, wvars>>

Next ==
    \/ \E k1 \in K1s : ComputeSizes(k1)
    \/ \E m \in RegModels : ComputeSpeedLimit(m)
    \/ \E op \in OperatingPoints : ComputeEff(op)
    \/ \E p \in LoadPoints : ComputeLoads(p)

Spec == Init /\ [][Next]_vars

(***************************************************************************)
(* compute_eff calls of a sweep on one instance, side by side: each worker *)
(* makes one call, and the statements of the calls interleave              *)
(***************************************************************************)
\* compute_sizes, called before the sweep starts
SizeFirst(k1) ==
    /\ \A w \in Workers : wpc[w] = "idle"
    /\ \E r \in {compute_sizes(hst, k1, K2Default, K3Default, K4Default, K5Default)} :
           /\ hst' = r.self
           /\ call' = Call("compute_sizes", <<k1>>, r)
    /\ UNCHANGED <<kept, wvars>>

\* lines 252-286: the locals are computed from the arguments and from
\* attributes that no compute_eff call assigns
WCompute(w, op) ==
    /\ wpc[w] = "idle"
    /\ wargs' = [wargs EXCEPT ![w] = op]
    /\ IF eff_raises(hst, op[1], op[2], op[3]) # "ok"
       THEN /\ wpc' = [wpc EXCEPT ![w] = "raised"]
            /\ UNCHANGED wloc
       ELSE /\ wpc' = [wpc EXCEPT ![w] = "computed"]
            /\ wloc' = [wloc EXCEPT ![w] = eff_locals(hst, op[1], op[2], op[3])]
    /\ UNCHANGED <<hst, call, kept, wret, wperf, overtaken>>

\* the workers whose call has stored the attribute and not read it yet
Pending(attr) ==
    {v \in Workers :
        wpc[v] \in IF attr = "performance"
                   THEN {"stored_performance", "stored_efficiencies", "returned"}
                   ELSE {"stored_efficiencies"}}

Overtake(w, attr) ==
    [v \in Workers |-> IF v # w /\ v \in Pending(attr)
                       THEN overtaken[v] \cup {attr} ELSE overtaken[v]]

\* lines 287-290
WStorePerformance(w) ==
    /\ wpc[w] = "computed"
    /\ hst' = store_performance(hst, wloc[w])
    /\ wpc' = [wpc EXCEPT ![w] = "stored_performance"]
    /\ overtaken' = Overtake(w, "performance")
    /\ UNCHANGED <<call, kept, wargs, wloc, wret, wperf>>

\* lines 291-293
WStoreEfficiencies(w) ==
    /\ wpc[w] = "stored_performance"
    /\ hst' = store_efficiencies(hst, wloc[w])
    /\ wpc' = [wpc EXCEPT ![w] = "stored_efficiencies"]
    /\ overtaken' = Overtake(w, "efficiencies")
    /\ UNCHANGED <<call, kept, wargs, wloc, wret, wperf>>

\* line 294: return self.efficiencies, the attribute as it is now
WReturn(w) ==
    /\ wpc[w] = "stored_efficiencies"
    /\ wret' = [wret EXCEPT ![w] = hst.efficiencies]
    /\ wpc' = [wpc EXCEPT ![w] = "returned"]
    /\ UNCHANGED <<hst, call, kept, wargs, wloc, wperf, overtaken>>

\* line 442: the caller reads self.performance after the call
WReadPerformance(w) ==
    /\ wpc[w] = "returned"
    /\ wperf' = [wperf EXCEPT ![w] = hst.performance]
    /\ wpc' = [wpc EXCEPT ![w] = "done"]
    /\ UNCHANGED <<hst, call, kept, wargs, wloc, wret, overtaken>>

NextPar ==
    \/ \E k1 \in K1s : SizeFirst(k1)
    \/ \E w \in Workers, op \in SweepPoints : WCompute(w, op)
    \/ \E w \in Workers : WStorePerformance(w)
    \/ \E w \in Workers : WStoreEfficiencies(w)
    \/ \E w \in Workers : WReturn(w)
    \/ \E w \in Workers : WReadPerformance(w)

SpecPar == Init /\ [][NextPar]_vars

(***************************************************************************)
(* The efficiency map of a machine: the sizes and the speed limit are      *)
(* computed, the map is plotted                                            *)
(***************************************************************************)
InitPlot ==
    /\ hst \in PlotMachines
    /\ call = None
    /\ kept = None
    /\ wpc = [w \in Workers |-> "idle"]
    /\ wargs = [w \in Workers |-> None]
    /\ wloc = [w \in Workers |-> None]
    /\ wret = [w \in Workers |-> None]
    /\ wperf = [w \in Workers |-> None]
    /\ overtaken = [w \in Workers |-> {}]

PlotEffMaps(a) ==
    \E r \in {plot_eff_maps(hst, a.max_speed_pump, a.max_pressure_discharge,
                            a.min_speed_pump, a.min_pressure_discharge,
                            a.pressure_charge, a.res)} :
        /\ hst' = r.self
        /\ call' = Call("plot_eff_maps", a, r)
        /\ UNCHANGED <<kept, wvars>>

NextPlot ==
    \/ \E k1 \in K1s : ComputeSizes(k1)
    \/ \E m \in RegModels : ComputeSpeedLimit(m)
    \/ \E a \in PlotArgs : PlotEffMaps(a)

SpecPlot == InitPlot /\ [][NextPlot]_vars

(***************************************************************************)
(* Properties                                                              *)
(***************************************************************************)
\* the latest completed call is a call of the method
LastCall(method) == call # None /\ call.method = method

\* ... and it returned
LastOk(method) == LastCall(method) /\ call.outcome = "ok"

Sized == HasAttr(hst, "sizes")

\* the invariant the design states for a configuration
ValidConfiguration == hst.displ > 0 /\ hst.swash > 0 /\ hst.swash < 90 /\ hst.pistons >= 3

\* 100 per cent in the scale of the efficiencies
Hundred == 100 * 10000

InUnit(x) == IsFin(x) /\ 0 < x /\ x <= Hundred

\* C1: a compute_eff call on a sized instance with a discharge pressure not
\* above the charge pressure fails: it returns no efficiency result.
C1_RejectsNonPositiveDeltaP ==
    (LastCall("compute_eff") /\ Sized /\ call.args[2] <= call.args[3])
        => call.outcome # "ok"

\* C2: compute_sizes on an instance whose swash angle is 0 or whose piston
\* count is not positive fails, and the instance has no sizes afterwards.
C2_RejectsInvalidConfiguration ==
    (LastCall("compute_sizes") /\ (hst.swash = 0 \/ hst.pistons <= 0))
        => (call.outcome # "ok" /\ ~Sized)

\* C3: a compute_eff call on an instance whose oil table has no row at the
\* configured oil temperature fails with a lookup error (KeyError), and the
\* instance holds no efficiencies and no performance afterwards (no call on
\* such an instance can have stored them before).
C3_LookupErrorNothingStored ==
    (LastCall("compute_eff") /\ hst.oil_temp \notin DOMAIN hst.oil_data)
        => /\ call.outcome = "KeyError"
           /\ ~HasAttr(hst, "efficiencies")
           /\ ~HasAttr(hst, "performance")

\* the latest call repeats the kept call: same arguments, same sizes (the
\* configuration and the oil data never change)
RepeatsKept ==
    /\ LastOk("compute_eff")
    /\ kept # None
    /\ call.args = kept.args
    /\ hst.sizes = kept.sizes

\* C4: a compute_eff call that repeats an earlier one, with the same
\* arguments on the same sizes, returns the same efficiencies and stores the
\* same efficiencies and performance, whatever calls ran in between.
C4_Deterministic ==
    RepeatsKept => /\ call.ret = kept.efficiencies
                   /\ hst.efficiencies = kept.efficiencies
                   /\ hst.performance = kept.performance

\* C4 happens: the call is repeated after a compute_eff call with other
\* arguments has overwritten the stored result, on an instance that
\* compute_loads and compute_speed_limit have been called on
C4_Witness ==
    /\ RepeatsKept
    /\ kept.overwritten
    /\ HasAttr(hst, "shaft_radial")
    /\ HasAttr(hst, "pump_speed_limit")

\* the latest call is a compute_eff call that returned, on a valid
\* configuration, for a positive speed and a discharge pressure above the
\* charge pressure
ValidPoint ==
    /\ LastOk("compute_eff")
    /\ ValidConfiguration
    /\ call.args[1] > 0
    /\ call.args[2] > call.args[3]

C6_PistonSplit ==
    LastOk("compute_loads") =>
        LET n  == hst.pistons
            pd == call.args[1]
            pc == call.args[2]
            Ap == hst.sizes.Ap
        IN  /\ hst.shaft_radial
                   = TimesTan(hst, Force((n \div 2 + 1) * pd + (n \div 2) * pc, Ap))
            /\ hst.swash_high_x = Force((n \div 2 + 1) * pd, Ap)
            /\ hst.swash_low_x = Force((n \div 2) * pc, Ap)
            /\ (n = 9 /\ pd = 300 /\ pc = 25)
                   => hst.shaft_radial = TimesTan(hst, Force(5 * 300 + 4 * 25, Ap))

\* C6 happens: the loads of a 9 piston machine at 300 bar and 25 bar
C6_Witness ==
    /\ LastOk("compute_loads")
    /\ hst.pistons = 9
    /\ call.args = <<300, 25>>
    /\ IsFin(hst.shaft_radial) /\ hst.shaft_radial > 0

\* the attributes compute_loads assigns
LoadAttrs ==
    {"shaft_radial", "swash_high_x", "swash_low_x", "swash_high_z", "swash_low_z"}

\* C7, as stated: compute_loads returns the loads to its caller and leaves
\* every attribute of the instance as it was.
C7_PureFunction ==
    [][(call'.method = "compute_loads" /\ call'.outcome = "ok")
           => (call'.ret # None /\ hst' = hst)]_vars

\* C7, as the code has it: compute_loads returns None, assigns the five load
\* attributes of the instance and leaves every other attribute as it was; a
\* call that fails assigns nothing.
C7_AssignsFiveAttributes ==
    [][call'.method = "compute_loads" =>
           IF call'.outcome = "ok"
           THEN /\ call'.ret = None
                /\ DOMAIN hst' = DOMAIN hst \cup LoadAttrs
                /\ \A a \in DOMAIN hst \ LoadAttrs : hst'[a] = hst[a]
           ELSE hst' = hst]_vars

\* C7 happens: compute_loads returned on an instance that holds sizes, a
\* speed limit and a latest compute_eff result
C7_Witness ==
    /\ LastOk("compute_loads")
    /\ LoadAttrs \subseteq DOMAIN hst
    /\ HasAttr(hst, "efficiencies")
    /\ HasAttr(hst, "pump_speed_limit")

\* C8: compute_speed_limit stores the triple (nominal - error, nominal,
\* nominal + error), nominal the model's prediction for the displacement of
\* the instance and error the model's RMSE; for error >= 0 the triple is
\* ordered and symmetric about nominal.
C8_SpeedBand ==
    LastOk("compute_speed_limit") =>
        LET RegModel == call.args[1]
            nominal  == RegModel.intercept_ + RegModel.coef_ * hst.displ
            error    == RegModel.test_rmse_
            band     == hst.pump_speed_limit
        IN  /\ band = <<nominal - error, nominal, nominal + error>>
            /\ error >= 0 => /\ band[1] <= band[2] /\ band[2] <= band[3]
                             /\ band[2] - band[1] = band[3] - band[2]

\* C8 happens: a speed limit with a positive error
C8_Witness ==
    /\ LastOk("compute_speed_limit")
    /\ call.args[1].test_rmse_ > 0
    /\ hst.pump_speed_limit[1] < hst.pump_speed_limit[3]

\* C9: whenever compute_eff or compute_loads reads the sizes they exist,
\* also when no compute_sizes call came before, and they are the sizes
\* compute_sizes produces from the configuration of the instance.
C9_SizesOnDemand ==
    (LastCall("compute_eff") \/ LastCall("compute_loads"))
        => /\ call.outcome # "AttributeError"
           /\ Sized
           /\ \E k1 \in K1s :
                  hst.sizes = sizes_dict(hst, k1, K2Default, K3Default,
                                         K4Default, K5Default)

\* the efficiencies and the performance of the operating point of a worker
OwnLocals(w) == eff_locals(hst, wargs[w][1], wargs[w][2], wargs[w][3])

ReturnedOwn(w) == wret[w] = efficiencies_dict(OwnLocals(w))

ReadOwn(w) ==
    /\ wperf[w] = performance_dict(OwnLocals(w))
    /\ wperf[w].pump.speed = wargs[w][1]
    /\ wperf[w].discharge_pressure = wargs[w][2]
    /\ wperf[w].charge_pressure = wargs[w][3]

\* C10, as stated: under any interleaving, the efficiencies a call returns
\* and the performance read back for it are those of its own operating
\* point.
C10_OwnResultAlways ==
    \A w \in Workers :
        /\ wpc[w] \in {"returned", "done"} => ReturnedOwn(w)
        /\ wpc[w] = "done" => ReadOwn(w)

\* C10, as the code has it: the efficiencies a call returns (the
\* performance read back for it) are those of its own operating point if no
\* other call has stored self.efficiencies (self.performance) between this
\* call's store and its read of the attribute.
C10_OwnResultUnlessOvertaken ==
    \A w \in Workers :
        /\ (wpc[w] \in {"returned", "done"} /\ "efficiencies" \notin overtaken[w])
               => ReturnedOwn(w)
        /\ (wpc[w] = "done" /\ "performance" \notin overtaken[w])
               => ReadOwn(w)

\* C10 happens: two interleaved calls for different operating points are
\* done, one overtaken and one not
C10_Witness ==
    \E w, v \in Workers :
        /\ wpc[w] = "done" /\ wpc[v] = "done"
        /\ wargs[w] # wargs[v]
        /\ overtaken[w] = {}
        /\ overtaken[v] # {}

\* the attribute is on the instance after the step exactly if it was before,
\* with the same value
Untouched(attr) ==
    /\ HasAttr(hst', attr) = HasAttr(hst, attr)
    /\ HasAttr(hst, attr) => hst'[attr] = hst[attr]

\* the performance dict of lines 280-290 for the arguments and the
\* efficiencies of one call
PerformanceOf(self, args, e) ==
    performance_dict(
        locals_of_totals(args[1], args[2], args[3],
                         e.pump.volumetric, e.motor.volumetric, e.hst.volumetric,
                         e.pump.mechanical, e.motor.mechanical, e.hst.mechanical,
                         e.pump.total, e.motor.total,
                         torque_pump_of(self, e.pump.mechanical, args[2], args[3])))

\* C11: in a sequence of compute_eff calls made one after another, a call
\* that returns leaves its own result in both attributes (efficiencies is
\* what it returned; performance is that of its arguments and of the
\* efficiencies it returned, and records its pump speed, discharge pressure
\* and charge pressure), and a call that
\* fails, like every call of another method, leaves both attributes as they
\* were; so both always hold the result of the most recent successful call,
\* and performance read right after a call that returned is that call's.
C11_LatestResult ==
    [][IF call'.method = "compute_eff" /\ call'.outcome = "ok"
       THEN /\ hst'.efficiencies = call'.ret
            /\ hst'.performance = PerformanceOf(hst, call'.args, call'.ret)
            /\ hst'.performance.pump.speed = call'.args[1]
            /\ hst'.performance.discharge_pressure = call'.args[2]
            /\ hst'.performance.charge_pressure = call'.args[3]
       ELSE Untouched("efficiencies") /\ Untouched("performance")]_vars

\* C11 happens: performance holds the result of the latest call, which
\* returned after an earlier call for another operating point had stored its
\* result, and differs from the result of that earlier call
C11_Witness ==
    /\ LastOk("compute_eff")
    /\ kept # None
    /\ kept.overwritten
    /\ call.args # kept.args
    /\ hst.performance # kept.performance
    /\ hst.performance.pump.speed = call.args[1]

\* the motor mechanical efficiency for a motor-side speed of
\* speed_pump * vol_hst / 100
MotorMechAt(self, speed_pump, vol_hst, swash_dp) ==
    IF ~IsFin(vol_hst) THEN NonFinite
    ELSE mech_formula(Sgn(speed_pump) * Sgn(vol_hst) * Sgn(swash_dp),
                      MulDiv(MulDiv(Viscosity(self) * speed_pump, vol_hst, One6),
                             1000, swash_dp),
                      Bm, Cm, swash_dp)

\* C12: the motor mechanical efficiency a compute_eff call returns is the
\* one for the motor-side speed pump speed * vol_hst / 100, with vol_hst the
\* hst volumetric efficiency the same call returns (the product of its pump
\* and motor volumetric efficiencies), whatever an earlier call left on the
\* instance.
C12_MotorFromOwnVolHst ==
    LastOk("compute_eff") =>
        LET e == call.ret
        IN  /\ e.hst.volumetric = PctMul(e.pump.volumetric, e.motor.volumetric)
            /\ e.motor.mechanical
                   = MotorMechAt(hst, call.args[1], e.hst.volumetric,
                                 hst.swash * (call.args[2] - call.args[3]))

\* C12 happens: a call returns a motor mechanical efficiency on an instance
\* on which an earlier call had left another hst volumetric efficiency
C12_Witness ==
    /\ LastOk("compute_eff")
    /\ kept # None
    /\ kept.overwritten
    /\ IsFin(kept.efficiencies.hst.volumetric)
    /\ IsFin(call.ret.hst.volumetric)
    /\ kept.efficiencies.hst.volumetric # call.ret.hst.volumetric
    /\ IsFin(call.ret.motor.mechanical)

\* C13: for every piston count n >= 3, odd or even, the pistons compute_loads
\* counts on the high-pressure side and on the low-pressure side add up to
\* n: the two counts of the code do, and the swash plate forces the call
\* stored are those of h pistons at the discharge pressure and n - h
\* pistons at the charge pressure, for some h.
C13_CountsAddUp ==
    (LastOk("compute_loads") /\ hst.pistons >= 3 /\ IsFin(hst.sizes.Ap)) =>
        /\ high_side(hst) + low_side(hst) = hst.pistons
        /\ \E h \in 0..hst.pistons :
               /\ hst.swash_high_x = Force(h * call.args[1], hst.sizes.Ap)
               /\ hst.swash_low_x
                      = Force((hst.pistons - h) * call.args[2], hst.sizes.Ap)

====
